---- MODULE Spec2Model ----
(***************************************************************************)
(* Real-time update delivery subsystem of HRMS_2:                          *)
(*   backend/app/websocket_manager.py   (WebSocketManager)                 *)
(*   backend/app/routes/websocket.py    (connect / reconnect endpoints)    *)
(*   backend/app/services/fallback_polling.py (FallbackPollingService)     *)
(*                                                                         *)
(* The manager runs on one asyncio event loop.  A coroutine is modelled as *)
(* a stack of frames; it runs atomically from one transport await          *)
(* (websocket.send_text) to the next.  Spec runs every handler to its end  *)
(* before the next starts; SpecAsync interleaves the coroutines at their   *)
(* awaits; SpecReconnect adds the reconnect endpoint; SpecRate exercises   *)
(* the token bucket against the clock.                                     *)
(***************************************************************************)
EXTENDS Integers, Sequences, FiniteSets, TLC

\* ------------------------------------------------------------------ bounds
NumConns == 2          \* connection ids ever handed out (uuid4, never reused)
MaxEvents == 3         \* events taken from the bus
MaxTasks == 2          \* coroutines suspended at a transport await at once
RateHorizon == 7       \* clock horizon of SpecRate, in ticks
MaxLoops == 3          \* poll tasks the service is asked to create (clock specifications)
WarnCap == 5           \* denied attempts per connection explored by SpecRate
MaxPongs == 1          \* pongs a client sends on one connection
\* The bucket of websocket_manager.py:44 holds 120 tokens and refills 120 per
\* 60 s.  The model keeps the algorithm and scales the two numbers: a bucket of
\* max_messages_per_minute tokens refilled over TicksPerMinute clock ticks.
max_messages_per_minute == 1
TicksPerMinute == 2

\* ------------------------------------------------------- program constants
MaxWarnings == 3       \* websocket_manager.py:495  warnings > 3 evicts
LatencyKept == 10      \* websocket_manager.py:434  latencies kept per connection
RetentionHours == 24   \* websocket_manager.py:443  queue retention
ReconnectWindowHours == 24  \* websocket_manager.py:40  reconnect_window
MaxPollAgeHours == 24       \* services/fallback_polling.py:29  max_poll_age

max_poll_age == MaxPollAgeHours * 60 * TicksPerMinute

Conns == 1..NumConns
Users == {"u1", "u2"}
NoUser == "none"
Roles == {"recruiter"}
NoRole == "none"

\* ----------------------------------------------------------------- helpers
Min(a, b) == IF a < b THEN a ELSE b

EmptyDict == [x \in {} |-> 0]

Put(d, k, v) == [x \in (DOMAIN d) \cup {k} |-> IF x = k THEN v ELSE d[x]]

Del(d, k) == [x \in (DOMAIN d) \ {k} |-> d[x]]

Range(q) == {q[i] : i \in DOMAIN q}

Remove(q, x) == SelectSeq(q, LAMBDA y : y # x)

RECURSIVE SortedSeq(_)
SortedSeq(S) ==
  IF S = {} THEN <<>>
  ELSE LET m == CHOOSE x \in S : \A y \in S : x <= y
       IN <<m>> \o SortedSeq(S \ {m})

\* A message dict.  type: its "type" key; ev: the number of the bus event it
\* was built from (0: none); ts: its "timestamp"; tok: "reconnect_token" (0:
\* None or no such key); conn: "connection_id" (0: no such key); status: its
\* "status" key ("none": None or no such key).
Msg(type, ev, ts, tok) ==
  [type |-> type, ev |-> ev, ts |-> ts, tok |-> tok, conn |-> 0, status |-> "none"]

NoMsg == Msg("none", 0, 0, 0)

\* The words of a message type, for the substring tests of _get_poll_type.
TypeWords(type) ==
  CASE type = "event" -> {"event"}
    [] type = "application_update" -> {"application", "update"}
    [] type = "interview_update" -> {"interview", "update"}
    [] type = "job_update" -> {"job", "update"}
    [] type = "system_announcement" -> {"system", "announcement"}
    [] type = "notification" -> {"notification"}
    [] type = "connection_established" -> {"connection", "established"}
    [] type = "ping" -> {"ping"}
    [] OTHER -> {}

VARIABLES
  active_connections,  \* dict connection_id -> WebSocket: its keys, in insertion order
  user_connections,    \* dict user_id -> set of connection_ids
  connection_roles,    \* dict connection_id -> role: its items, in insertion order
  connection_health,   \* dict connection_id -> health record
  message_queue,       \* dict user_id -> list of queued messages
  reconnect_tokens,    \* dict user_id -> token
  session_state,       \* dict connection_id -> session state: items in insertion order
  rate_limits,         \* dict connection_id -> token bucket
  active_polls,        \* polling_service.active_polls: dict poll_id -> session
  poll_tasks,          \* the _poll_loop tasks created, in order: poll_id and state
  wire,                \* per connection, the frames its transport has accepted
  ws_state,            \* per connection, the transport: "fresh", "open" or "closed"
  endpoint,            \* per connection, the (user_id, role) its route was called with
  heartbeats,          \* connections whose heartbeat task is asleep
  receiving,           \* connections whose route is in its receive loop
  tasks,               \* coroutines suspended at a transport await (frame stacks)
  now,                 \* the clock, in ticks
  next_token,          \* number of tokens secrets.token_urlsafe has produced
  next_event,          \* number of events taken from the bus
  reconnect_result,    \* the last answer of POST /ws/reconnect
  obs,                 \* observations of completed handlers (history)
  allow_log            \* per tick, the attempts _check_rate_limit allowed (history)

vars == <<active_connections, user_connections, connection_roles, connection_health,
          message_queue, reconnect_tokens, session_state, rate_limits, active_polls,
          poll_tasks, wire, ws_state, endpoint, heartbeats, receiving, tasks, now, next_token,
          next_event, reconnect_result, obs, allow_log>>

\* ------------------------------------------------- the manager as a record
\* The operators below are the methods of WebSocketManager.  They take the
\* manager (and what it reaches: the transports, the polling service, the clock)
\* as a record s and return the record after the call.
St ==
  [active_connections |-> active_connections, user_connections |-> user_connections,
   connection_roles |-> connection_roles, connection_health |-> connection_health,
   message_queue |-> message_queue, reconnect_tokens |-> reconnect_tokens,
   session_state |-> session_state, rate_limits |-> rate_limits,
   active_polls |-> active_polls, poll_tasks |-> poll_tasks, wire |-> wire, ws_state |-> ws_state,
   endpoint |-> endpoint, heartbeats |-> heartbeats, receiving |-> receiving,
   now |-> now, next_token |-> next_token, obs |-> obs]

Live(s) == Range(s.active_connections)

\* (uid for uid, conns in self.user_connections.items() if connection_id in conns)
OwnersOf(s, c) == {u \in DOMAIN s.user_connections : c \in s.user_connections[u]}

\* disconnect leaving the user's entry in place when its set became empty
disconnect_keep_entry(s, c, u) ==
  LET s1 == [s EXCEPT !.active_connections = Remove(@, c)]
  IN IF u # NoUser /\ u \in DOMAIN s1.user_connections
     THEN [s1 EXCEPT !.user_connections = Put(@, u, s1.user_connections[u] \ {c})]
     ELSE s1

\* disconnect testing whether the user's set is empty before discarding the
\* connection from it
disconnect_test_before_discard(s, c, u) ==
  LET s1 == [s EXCEPT !.active_connections = Remove(@, c)]
  IN IF u # NoUser /\ u \in DOMAIN s1.user_connections
     THEN IF s1.user_connections[u] = {}
          THEN [s1 EXCEPT !.user_connections = Del(@, u)]
          ELSE [s1 EXCEPT !.user_connections = Put(@, u, s1.user_connections[u] \ {c})]
     ELSE s1

\* disconnect(connection_id, user_id=None)
disconnect(s, c, u) ==
  LET s1 == [s EXCEPT !.active_connections = Remove(@, c)]
  IN IF u # NoUser /\ u \in DOMAIN s1.user_connections
     THEN LET rest == s1.user_connections[u] \ {c}
          IN [s1 EXCEPT !.user_connections =
                          IF rest = {} THEN Del(@, u) ELSE Put(@, u, rest)]
     ELSE s1

\* _check_rate_limit with a bucket that is never capped at its capacity
check_rate_limit_uncapped(s, c) ==
  IF c \notin DOMAIN s.rate_limits
  THEN [s |-> [s EXCEPT !.rate_limits =
                 Put(@, c, [tokens |-> max_messages_per_minute,
                            last_update |-> s.now, warnings |-> 0])],
        ok |-> TRUE]
  ELSE LET rd == s.rate_limits[c]
           time_passed == s.now - rd.last_update
           tokens_to_add == (time_passed * max_messages_per_minute) \div TicksPerMinute
           tokens == rd.tokens + tokens_to_add
       IN IF tokens > 0
          THEN [s |-> [s EXCEPT !.rate_limits =
                         Put(@, c, [tokens |-> tokens - 1, last_update |-> s.now,
                                    warnings |-> rd.warnings])],
                ok |-> TRUE]
          ELSE LET s1 == [s EXCEPT !.rate_limits =
                            Put(@, c, [tokens |-> tokens, last_update |-> s.now,
                                       warnings |-> rd.warnings + 1])]
               IN [s |-> IF rd.warnings + 1 > MaxWarnings
                         THEN disconnect(s1, c, NoUser) ELSE s1,
                   ok |-> FALSE]

\* _check_rate_limit(connection_id): the record after the check, and its answer
check_rate_limit(s, c) ==
  IF c \notin DOMAIN s.rate_limits
  THEN [s |-> [s EXCEPT !.rate_limits =
                 Put(@, c, [tokens |-> max_messages_per_minute,
                            last_update |-> s.now, warnings |-> 0])],
        ok |-> TRUE]
  ELSE LET rd == s.rate_limits[c]
           time_passed == s.now - rd.last_update
           tokens_to_add == (time_passed * max_messages_per_minute) \div TicksPerMinute
           tokens == Min(max_messages_per_minute, rd.tokens + tokens_to_add)
       IN IF tokens > 0
          THEN [s |-> [s EXCEPT !.rate_limits =
                         Put(@, c, [tokens |-> tokens - 1, last_update |-> s.now,
                                    warnings |-> rd.warnings])],
                ok |-> TRUE]
          ELSE LET s1 == [s EXCEPT !.rate_limits =
                            Put(@, c, [tokens |-> tokens, last_update |-> s.now,
                                       warnings |-> rd.warnings + 1])]
               IN [s |-> IF rd.warnings + 1 > MaxWarnings
                         THEN disconnect(s1, c, NoUser) ELSE s1,
                   ok |-> FALSE]

\* _get_poll_type(message)
get_poll_type(m) ==
  LET w == TypeWords(m.type)
  IN IF "interview" \in w THEN "interview"
     ELSE IF "application" \in w THEN "application"
     ELSE IF "job" \in w THEN "job"
     ELSE IF "system" \in w THEN "system"
     ELSE "none"

\* FallbackPollingService.start_polling(user_id, poll_type, callback)
\* poll_id = f"poll_{user_id}_{poll_type}_{int(now)}"; _get_last_update_id
\* answers None (CacheService has no get: the bare except returns None).
\* asyncio.create_task(self._poll_loop(poll_id)) follows, whether or not the id
\* was registered already.
start_polling(s, u, poll_type) ==
  [s EXCEPT !.active_polls =
     Put(@, <<u, poll_type, s.now>>,
         [user_id |-> u, type |-> poll_type, last_poll |-> s.now,
          last_update_id |-> 0]),
            !.poll_tasks =
     Append(@, [poll_id |-> <<u, poll_type, s.now>>, state |-> "ready"])]

\* FallbackPollingService.stop_polling(poll_id)
stop_polling(s, poll_id) ==
  IF poll_id \in DOMAIN s.active_polls
  THEN [s EXCEPT !.active_polls = Del(@, poll_id)] ELSE s

\* _get_updates with the name settings bound, reading one record of the
\* collection whatever the watermark
get_updates_unfiltered(s, user_id, poll_type, last_update_id) ==
  <<[id |-> 1, type |-> poll_type]>>

\* FallbackPollingService._get_updates(user_id, poll_type, last_update_id): the
\* module never binds the name settings, so client[settings.mongo_db_name]
\* raises NameError before any query is made; the except clause returns [].
get_updates(s, user_id, poll_type, last_update_id) ==
  <<>>

\* FallbackPollingService._poll_loop(poll_id): one turn of its while loop, from
\* the loop test to asyncio.sleep.  A last_update_id of 0 stands for None.
\* obs.polled keeps, per session, the watermark before and after the turn, the
\* records passed to the callback, those passed in earlier turns, and the time.
poll_loop(s, poll_id) ==
  LET poll == s.active_polls[poll_id]
      updates == get_updates(s, poll.user_id, poll.type, poll.last_update_id)
      last_id == IF updates # <<>> /\ updates[Len(updates)].id # 0
                 THEN updates[Len(updates)].id ELSE poll.last_update_id
      p2 == [poll EXCEPT !.last_update_id = last_id, !.last_poll = s.now]
      earlier == IF poll_id \in DOMAIN s.obs.polled
                 THEN s.obs.polled[poll_id].delivered \cup
                      {u.id : u \in Range(s.obs.polled[poll_id].batch)}
                 ELSE {}
      s1 == [s EXCEPT !.active_polls = Put(@, poll_id, p2),
                      !.obs.polled =
                         Put(@, poll_id, [before |-> poll.last_update_id,
                                          after |-> last_id, batch |-> updates,
                                          delivered |-> earlier, at |-> s.now])]
  IN IF s.now - p2.last_poll > max_poll_age THEN stop_polling(s1, poll_id) ELSE s1

\* The n-th _poll_loop task runs from its loop test: a turn of the loop up to
\* asyncio.sleep when its poll_id is registered (the task returns if the turn
\* ended in stop_polling and break), and the end of the task when it is not.
\* A task is "ready" (created, or its sleep is over), "asleep" or "done".
poll_task(s, n) ==
  LET poll_id == s.poll_tasks[n].poll_id
  IN IF poll_id \in DOMAIN s.active_polls
     THEN LET s1 == poll_loop(s, poll_id)
          IN IF poll_id \in DOMAIN s1.active_polls
             THEN [s1 EXCEPT !.poll_tasks[n].state = "asleep"]
             ELSE [s1 EXCEPT !.poll_tasks[n].state = "done"]
     ELSE [s EXCEPT !.poll_tasks[n].state = "done"]

\* session_state[connection_id] = {...}: a new key goes last, an old key keeps
\* its place
PutSession(q, rec) ==
  IF \E i \in DOMAIN q : q[i].conn = rec.conn
  THEN [i \in DOMAIN q |-> IF q[i].conn = rec.conn THEN rec ELSE q[i]]
  ELSE Append(q, rec)

RoleOf(s, c) ==
  IF \E i \in DOMAIN s.connection_roles : s.connection_roles[i].conn = c
  THEN LET i == CHOOSE j \in DOMAIN s.connection_roles : s.connection_roles[j].conn = c
       IN s.connection_roles[i].role
  ELSE NoRole

\* _handle_disconnect_with_fallback(connection_id, message)
handle_disconnect_with_fallback(s, c, m) ==
  IF OwnersOf(s, c) = {} THEN s
  ELSE LET user_id == CHOOSE u \in OwnersOf(s, c) : TRUE
           s1 == [s EXCEPT !.session_state =
                    PutSession(@, [conn |-> c, last_message |-> m,
                                   disconnected_at |-> s.now, user_id |-> user_id,
                                   role |-> RoleOf(s, c)])]
           poll_type == get_poll_type(m)
           s2 == IF poll_type # "none" THEN start_polling(s1, user_id, poll_type) ELSE s1
       IN disconnect(s2, c, NoUser)

\* _cleanup_message_queue(): entries older than the retention window go, and so
\* do the queues left empty
Retention == RetentionHours * 60 * TicksPerMinute

cleanup_message_queue(s) ==
  LET expiry_time == s.now - Retention
      kept(u) == SelectSeq(s.message_queue[u], LAMBDA m : m.ts > expiry_time)
      users == {u \in DOMAIN s.message_queue : kept(u) # <<>>}
  IN [s EXCEPT !.message_queue = [u \in users |-> kept(u)]]

\* ------------------------------------------------------------- coroutines
\* A frame is one activation (or the rest of one) of a coroutine of the manager.
\* etype and payload are the event_type and the payload of the event a router
\* frame handles: etype "none" is an event without event_type; payload is the
\* payload's "status", "none" for a payload without one and NullPayload for an
\* event whose payload is null.
NullPayload == "null"

Frame(op, m, c, u, r) ==
  [op |-> op, msg |-> m, conn |-> c, user |-> u, role |-> r,
   seen |-> {}, pos |-> 0, left |-> 0, size |-> 0, etype |-> "none",
   payload |-> "none"]

\* What running a frame up to its next await gives: the record, the frames that
\* replace it, and whether it stopped at a transport await.
Res(s, push, susp) == [s |-> s, push |-> push, susp |-> susp]

\* History: the outcome of the last failed delivery to c, when Send returns.
NoteFailed(s, c, m, transport) ==
  [s EXCEPT !.obs.failed =
     Put(@, c, [msg |-> m, transport |-> transport, live_after |-> c \in Live(s)])]

\* History: whether a frame handed to send_text had the keys "message_id" and
\* "timestamp".
Stamps(id, ts) == [message_id |-> id, timestamp |-> ts]

\* send_personal_message(message, connection_id), up to websocket.send_text: the
\* message gets a message_id and a timestamp if it has none
send_personal_message(s, f) ==
  LET c == f.conn
      rl == check_rate_limit(s, c)
      s1 == rl.s
  IN IF ~rl.ok THEN Res(s1, <<>>, FALSE)
     ELSE IF c \in Live(s1)
     THEN IF s1.ws_state[c] = "open"
          THEN Res([s1 EXCEPT !.wire[c] = Append(@, f.msg),
                              !.obs.stamped[c] = Append(@, Stamps(TRUE, TRUE))],
                   <<>>, TRUE)
          ELSE Res(s1, <<[f EXCEPT !.op = "spm_except"]>>, TRUE)
     ELSE Res(NoteFailed(handle_disconnect_with_fallback(s1, c, f.msg), c, f.msg, FALSE),
              <<>>, FALSE)

\* send_personal_message, its except branch after send_text raised
spm_except(s, f) ==
  Res(NoteFailed(handle_disconnect_with_fallback(s, f.conn, f.msg), f.conn, f.msg, TRUE),
      <<>>, FALSE)

\* send_to_user(message, user_id): list(self.user_connections[user_id]), then a
\* send per connection
send_to_user(s, f) ==
  IF f.user \in DOMAIN s.user_connections
  THEN LET ids == SortedSeq(s.user_connections[f.user])
       IN Res(s, [i \in DOMAIN ids |-> Frame("spm", f.msg, ids[i], NoUser, NoRole)], FALSE)
  ELSE Res(s, <<>>, FALSE)

\* broadcast(message): entry; the for loop opens an iterator on the live dict
broadcast(s, f) ==
  LET n == Len(s.active_connections)
      s1 == [s EXCEPT !.obs.bc =
               [msg |-> f.msg, targets |-> Live(s), failed |-> {}, got |-> {},
                removed |-> {}, done |-> FALSE]]
  IN Res(s1, <<[f EXCEPT !.op = "bcast_iter", !.size = n, !.left = n]>>, FALSE)

\* History: the last broadcast started has returned.
BcDone(s, f) ==
  LET b == s.obs.bc
  IN IF b.msg # f.msg THEN s
     ELSE [s EXCEPT !.obs.bc =
             [b EXCEPT !.done = TRUE,
                       !.got = {c \in b.targets : f.msg \in Range(s.wire[c])},
                       !.removed = b.targets \ Live(s)]]

\* broadcast: one turn of "for connection_id, websocket in
\* self.active_connections.items()".  The dict iterator raises RuntimeError when
\* the dict changed size, or when it finds an entry after yielding as many as the
\* dict held at the start; the outer except ends the broadcast.
\* The message is written as it is, json.dumps(message): it has the "timestamp"
\* its builder gave it and no "message_id".
bcast_iter(s, f) ==
  IF Len(s.active_connections) # f.size THEN Res(BcDone(s, f), <<>>, FALSE)
  ELSE LET rest == SelectSeq(s.active_connections, LAMBDA c : c \notin f.seen)
       IN IF rest = <<>> THEN Res(BcDone(s, f), <<>>, FALSE)
          ELSE IF f.left = 0 THEN Res(BcDone(s, f), <<>>, FALSE)
          ELSE LET c == Head(rest)
                   f2 == [f EXCEPT !.seen = @ \cup {c}, !.left = @ - 1]
               IN IF s.ws_state[c] = "open"
                  THEN Res([s EXCEPT !.wire[c] = Append(@, f.msg),
                                     !.obs.stamped[c] = Append(@, Stamps(FALSE, TRUE))],
                           <<f2>>, TRUE)
                  ELSE Res(s, <<[f2 EXCEPT !.op = "bcast_except", !.conn = c]>>, TRUE)

\* broadcast: its except branch, self.disconnect(connection_id), then the loop
bcast_except(s, f) ==
  LET s1 == disconnect(s, f.conn, NoUser)
  IN Res([s1 EXCEPT !.obs.bc.failed = IF s.obs.bc.msg = f.msg THEN @ \cup {f.conn} ELSE @],
         <<[f EXCEPT !.op = "bcast_iter", !.conn = 0]>>, FALSE)

\* broadcast_to_role(message, role): entry
broadcast_to_role(s, f) ==
  Res(s, <<[f EXCEPT !.op = "btr_iter", !.size = Len(s.connection_roles), !.pos = 1]>>,
      FALSE)

\* broadcast_to_role: one turn of "for conn_id, conn_role in
\* self.connection_roles.items()"
btr_iter(s, f) ==
  IF Len(s.connection_roles) # f.size THEN Res(s, <<>>, FALSE)
  ELSE IF f.pos > f.size THEN Res(s, <<>>, FALSE)
  ELSE LET e == s.connection_roles[f.pos]
           nxt == [f EXCEPT !.pos = @ + 1]
       IN IF e.role = f.role /\ e.conn \in Live(s)
          THEN Res(s, <<Frame("spm", f.msg, e.conn, NoUser, NoRole), nxt>>, FALSE)
          ELSE Res(s, <<nxt>>, FALSE)

\* handle_application_update building its message without the status
handle_application_update_no_status(s, f) ==
  LET message == Msg("application_update", f.msg.ev, s.now, 0)
  IN <<Frame("send_to_user", message, 0, f.user, NoRole),
       Frame("broadcast_to_role", message, 0, NoUser, "recruiter")>>

\* handle_application_update(job_id, user_id, status, data): its message, sent to
\* the candidate and then to the recruiters
handle_application_update(s, f) ==
  LET message == [Msg("application_update", f.msg.ev, s.now, 0)
                    EXCEPT !.status = f.payload]
  IN <<Frame("send_to_user", message, 0, f.user, NoRole),
       Frame("broadcast_to_role", message, 0, NoUser, "recruiter")>>

\* handle_job_update(job_id, status, data): its message, broadcast to everyone
handle_job_update(s, f, status) ==
  LET message == [Msg("job_update", f.msg.ev, s.now, 0) EXCEPT !.status = status]
  IN <<Frame("broadcast", message, 0, NoUser, NoRole)>>

\* _handle_redis_event routing the generic frame before it looks at event_type
handle_redis_event_route_first(s, f) ==
  LET typed == IF f.etype = "application_status_changed"
               THEN handle_application_update(s, f)
               ELSE IF f.etype = "job_matching_completed"
               THEN handle_job_update(s, f, "matching_completed")
               ELSE <<>>
      raises == \/ f.etype = "none"
                \/ f.etype = "application_status_changed" /\ f.payload = NullPayload
  IN IF raises
     THEN Res([s EXCEPT !.obs.dropped = @ \cup {f.msg.ev}],
              <<[f EXCEPT !.op = "route_target"]>>, FALSE)
     ELSE Res(s, typed \o <<[f EXCEPT !.op = "route_target"]>>, FALSE)

\* _handle_redis_event(event_data): the typed handlers.  event_type.startswith
\* on an event without event_type and payload.get on a null payload raise
\* AttributeError, which the method's except logs: the event is dropped
\* (obs.dropped keeps its number).
handle_redis_event(s, f) ==
  LET typed == IF f.etype = "application_status_changed"
               THEN handle_application_update(s, f)
               ELSE IF f.etype = "job_matching_completed"
               THEN handle_job_update(s, f, "matching_completed")
               ELSE <<>>
      raises == \/ f.etype = "none"
                \/ f.etype = "application_status_changed" /\ f.payload = NullPayload
  IN IF raises THEN Res([s EXCEPT !.obs.dropped = @ \cup {f.msg.ev}], <<>>, FALSE)
     ELSE Res(s, typed \o <<[f EXCEPT !.op = "route_target"]>>, FALSE)

\* The manager's live connections that were connected for user u.
LiveOf(s, u) == {c \in Live(s) : s.endpoint[c].user = u}

Count(q, x) == Cardinality({i \in DOMAIN q : q[i] = x})

\* _handle_redis_event: role, else user (send or queue), else everyone
route_target(s, f) ==
  LET fin == [f EXCEPT !.op = "route_end"]
  IN IF f.role # NoRole
     THEN Res(s, <<Frame("broadcast_to_role", f.msg, 0, NoUser, f.role), fin>>, FALSE)
     ELSE IF f.user # NoUser
     THEN LET s1 == [s EXCEPT !.obs.pub =
                       [msg |-> f.msg, user |-> f.user, live |-> LiveOf(s, f.user),
                        queued |-> 0, done |-> FALSE]]
          IN IF f.user \in DOMAIN s.user_connections
             THEN Res(s1, <<Frame("send_to_user", f.msg, 0, f.user, NoRole), fin>>, FALSE)
             ELSE LET q == IF f.user \in DOMAIN s.message_queue
                           THEN s.message_queue[f.user] ELSE <<>>
                  IN Res([s1 EXCEPT !.message_queue = Put(@, f.user, Append(q, f.msg))],
                         <<fin>>, FALSE)
     ELSE Res(s, <<Frame("broadcast", f.msg, 0, NoUser, NoRole), fin>>, FALSE)

\* _handle_redis_event: await self._cleanup_message_queue(), and return
route_end(s, f) ==
  LET s1 == cleanup_message_queue(s)
  IN IF s1.obs.pub.msg = f.msg /\ f.role = NoRole /\ f.user # NoUser
     THEN LET q == IF f.user \in DOMAIN s1.message_queue
                   THEN s1.message_queue[f.user] ELSE <<>>
          IN Res([s1 EXCEPT !.obs.pub.done = TRUE,
                            !.obs.pub.queued = Count(q, f.msg)], <<>>, FALSE)
     ELSE Res(s1, <<>>, FALSE)

\* connect replaying the user's queue without deleting it
connect_keep_queue(s, f) ==
  LET c == f.conn
      u == f.user
      s1 == [s EXCEPT !.active_connections = IF c \in Range(@) THEN @ ELSE Append(@, c)]
      tail == [f EXCEPT !.op = "connect_tail"]
  IN IF u = NoUser THEN Res(s1, <<tail>>, FALSE)
     ELSE LET conns == IF u \in DOMAIN s1.user_connections
                       THEN s1.user_connections[u] ELSE {}
              s2 == [s1 EXCEPT !.user_connections = Put(@, u, conns \cup {c})]
              queued_messages == IF u \in DOMAIN s2.message_queue
                                 THEN s2.message_queue[u] ELSE <<>>
              s3 == [s2 EXCEPT !.obs.replayed =
                                  Put(@, c, [user |-> u, queued |-> queued_messages,
                                             returned |-> FALSE, queue_after |-> <<>>])]
          IN Res(s3, [i \in DOMAIN queued_messages |->
                        Frame("spm", queued_messages[i], c, NoUser, NoRole)] \o <<tail>>,
                 FALSE)

\* connect(websocket, connection_id, user_id, role), after accept(): register,
\* take the user's queue and replay it
connect(s, f) ==
  LET c == f.conn
      u == f.user
      s1 == [s EXCEPT !.active_connections = IF c \in Range(@) THEN @ ELSE Append(@, c)]
      tail == [f EXCEPT !.op = "connect_tail"]
  IN IF u = NoUser THEN Res(s1, <<tail>>, FALSE)
     ELSE LET conns == IF u \in DOMAIN s1.user_connections
                       THEN s1.user_connections[u] ELSE {}
              s2 == [s1 EXCEPT !.user_connections = Put(@, u, conns \cup {c})]
              queued_messages == IF u \in DOMAIN s2.message_queue
                                 THEN s2.message_queue[u] ELSE <<>>
              s3 == [s2 EXCEPT !.message_queue = Del(@, u),
                               !.obs.replayed =
                                  Put(@, c, [user |-> u, queued |-> queued_messages,
                                             returned |-> FALSE, queue_after |-> <<>>])]
          IN Res(s3, [i \in DOMAIN queued_messages |->
                        Frame("spm", queued_messages[i], c, NoUser, NoRole)] \o <<tail>>,
                 FALSE)

\* connect's tail generating a reconnect token only for a user who has none
connect_tail_keep_token(s, f) ==
  LET c == f.conn
      u == f.user
      s1 == IF f.role # NoRole
            THEN [s EXCEPT !.connection_roles = Append(@, [conn |-> c, role |-> f.role])]
            ELSE s
      s2 == [s1 EXCEPT !.connection_health =
               Put(@, c, [connected_at |-> s.now, last_ping |-> -1, ping_count |-> 0,
                          latency_ms |-> <<>>])]
      s3 == IF u # NoUser /\ u \notin DOMAIN s2.reconnect_tokens
            THEN [s2 EXCEPT !.next_token = @ + 1,
                            !.reconnect_tokens = Put(@, u, s2.next_token + 1),
                            !.obs.issued = Append(@, [user |-> u, token |-> s2.next_token + 1])]
            ELSE s2
      tok == IF u \in DOMAIN s3.reconnect_tokens THEN s3.reconnect_tokens[u] ELSE 0
  IN Res(s3, <<Frame("spm", [Msg("connection_established", 0, s.now, tok) EXCEPT !.conn = c],
                     c, NoUser, NoRole),
               [f EXCEPT !.op = "connect_done"]>>, FALSE)

\* connect: role, health record, reconnect token, welcome frame
connect_tail(s, f) ==
  LET c == f.conn
      u == f.user
      s1 == IF f.role # NoRole
            THEN [s EXCEPT !.connection_roles = Append(@, [conn |-> c, role |-> f.role])]
            ELSE s
      s2 == [s1 EXCEPT !.connection_health =
               Put(@, c, [connected_at |-> s.now, last_ping |-> -1, ping_count |-> 0,
                          latency_ms |-> <<>>])]
      s3 == IF u # NoUser
            THEN [s2 EXCEPT !.next_token = @ + 1,
                            !.reconnect_tokens = Put(@, u, s2.next_token + 1),
                            !.obs.issued = Append(@, [user |-> u, token |-> s2.next_token + 1])]
            ELSE s2
      tok == IF u \in DOMAIN s3.reconnect_tokens THEN s3.reconnect_tokens[u] ELSE 0
  IN Res(s3, <<Frame("spm", [Msg("connection_established", 0, s.now, tok) EXCEPT !.conn = c],
                     c, NoUser, NoRole),
               [f EXCEPT !.op = "connect_done"]>>, FALSE)

\* connect: asyncio.create_task(self._connection_heartbeat(connection_id)), and
\* return to the route, which enters its receive loop.  A heartbeat whose
\* connection is no longer live ends at its first loop test.
connect_done(s, f) ==
  LET c == f.conn
      s1 == [s EXCEPT !.heartbeats = IF c \in Live(s) THEN @ \cup {c} ELSE @,
                      !.receiving = @ \cup {c}]
  IN IF c \in DOMAIN s1.obs.replayed
     THEN LET u == s1.obs.replayed[c].user
              q == IF u \in DOMAIN s1.message_queue THEN s1.message_queue[u] ELSE <<>>
          IN Res([s1 EXCEPT !.obs.replayed[c].returned = TRUE,
                            !.obs.replayed[c].queue_after = q], <<>>, FALSE)
     ELSE Res(s1, <<>>, FALSE)

\* _connection_heartbeat: after the ping, the health update and the loop test
heartbeat_after(s, f) ==
  LET c == f.conn
      h == s.connection_health[c]
  IN Res([s EXCEPT !.connection_health[c] =
                     [h EXCEPT !.last_ping = s.now, !.ping_count = @ + 1],
                   !.heartbeats = IF c \in Live(s) THEN @ \cup {c} ELSE @],
         <<>>, FALSE)

StepFrame(s, f) ==
  CASE f.op = "spm" -> send_personal_message(s, f)
    [] f.op = "spm_except" -> spm_except(s, f)
    [] f.op = "send_to_user" -> send_to_user(s, f)
    [] f.op = "broadcast" -> broadcast(s, f)
    [] f.op = "bcast_iter" -> bcast_iter(s, f)
    [] f.op = "bcast_except" -> bcast_except(s, f)
    [] f.op = "broadcast_to_role" -> broadcast_to_role(s, f)
    [] f.op = "btr_iter" -> btr_iter(s, f)
    [] f.op = "route" -> handle_redis_event(s, f)
    [] f.op = "route_target" -> route_target(s, f)
    [] f.op = "route_end" -> route_end(s, f)
    [] f.op = "connect" -> connect(s, f)
    [] f.op = "connect_tail" -> connect_tail(s, f)
    [] f.op = "connect_done" -> connect_done(s, f)
    [] f.op = "heartbeat_after" -> heartbeat_after(s, f)

\* Run a coroutine from where it stands to its next transport await, or its end.
RECURSIVE Run(_, _)
Run(s, stack) ==
  IF stack = <<>> THEN [s |-> s, stack |-> <<>>]
  ELSE LET r == StepFrame(s, Head(stack))
           st == r.push \o Tail(stack)
       IN IF r.susp THEN [s |-> r.s, stack |-> st] ELSE Run(r.s, st)

\* Run a coroutine to its end, nothing else running at its awaits.
RECURSIVE RunAll(_, _)
RunAll(s, stack) ==
  LET r == Run(s, stack)
  IN IF r.stack = <<>> THEN r ELSE RunAll(r.s, r.stack)

\* reconnect_session comparing the token with the tokens stored for all users
reconnect_session_any_user(s, u, t, r) ==
  LET answer(status, st) ==
        [user_id |-> u, token |-> t, status |-> status, role |-> st.role,
         last_message |-> st.last_message, disconnected_at |-> st.disconnected_at]
      none == [role |-> NoRole, last_message |-> NoMsg, disconnected_at |-> -1]
      mine == SelectSeq(s.session_state, LAMBDA st : st.user_id = u)
  IN IF \A v \in DOMAIN s.reconnect_tokens : s.reconnect_tokens[v] # t
     THEN answer("401", none)
     ELSE IF mine = <<>> THEN answer("404", none)
     ELSE answer("ready_to_reconnect",
                 [Head(mine) EXCEPT !.role = IF r # NoRole THEN r ELSE @])

\* reconnect_session answering with the first session state of any user
reconnect_session_any_state(s, u, t, r) ==
  LET answer(status, st) ==
        [user_id |-> u, token |-> t, status |-> status, role |-> st.role,
         last_message |-> st.last_message, disconnected_at |-> st.disconnected_at]
      none == [role |-> NoRole, last_message |-> NoMsg, disconnected_at |-> -1]
  IN IF u \notin DOMAIN s.reconnect_tokens \/ s.reconnect_tokens[u] # t
     THEN answer("401", none)
     ELSE IF s.session_state = <<>> THEN answer("404", none)
     ELSE answer("ready_to_reconnect",
                 [Head(s.session_state) EXCEPT !.role = IF r # NoRole THEN r ELSE @])

\* POST /ws/reconnect: reconnect_session(user_id, reconnect_token, role).  A token
\* of 0 stands for a value secrets.token_urlsafe never produced.
reconnect_session(s, u, t, r) ==
  LET answer(status, st) ==
        [user_id |-> u, token |-> t, status |-> status, role |-> st.role,
         last_message |-> st.last_message, disconnected_at |-> st.disconnected_at]
      none == [role |-> NoRole, last_message |-> NoMsg, disconnected_at |-> -1]
      mine == SelectSeq(s.session_state, LAMBDA st : st.user_id = u)
  IN IF u \notin DOMAIN s.reconnect_tokens \/ s.reconnect_tokens[u] # t
     THEN answer("401", none)
     ELSE IF mine = <<>> THEN answer("404", none)
     ELSE answer("ready_to_reconnect",
                 [Head(mine) EXCEPT !.role = IF r # NoRole THEN r ELSE @])

\* handle_pong(connection_id, ping_timestamp): the latency is appended to the
\* health record, of which the last LatencyKept are kept.  ping_timestamp = -1
\* is None (the frame had no such key): the subtraction raises TypeError, which
\* the method catches.
handle_pong(s, c, ping_timestamp) ==
  IF c \in DOMAIN s.connection_health /\ ping_timestamp # -1
  THEN LET l == Append(s.connection_health[c].latency_ms, (s.now - ping_timestamp) * 1000)
           kept == IF Len(l) > LatencyKept
                   THEN SubSeq(l, Len(l) - LatencyKept + 1, Len(l)) ELSE l
       IN [s EXCEPT !.connection_health[c].latency_ms = kept]
  ELSE s

\* The text frames a client sends: not JSON; JSON that is not an object (a
\* list, a number, a string, null); an object of a type the route does not
\* know; a pong with and without its ping_timestamp; a user_message.
FrameKinds ==
  {"invalid_json", "not_object", "unknown_type", "pong", "pong_no_timestamp",
   "user_message"}

\* websocket_endpoint: an exception other than WebSocketDisconnect leaves the
\* receive loop for the outer handler, which logs, closes the socket and returns.
endpoint_except(s, c) ==
  [s EXCEPT !.ws_state[c] = "closed", !.receiving = @ \ {c}]

\* websocket_endpoint: one turn of its receive loop on a text frame.
\* json.loads fails: continue.  message.get on a value that is not a dict raises
\* AttributeError.  WebSocketManager has no handle_user_message: the call raises
\* AttributeError.
endpoint_turn(s, c, kind) ==
  CASE kind = "invalid_json" -> s
    [] kind = "not_object" -> endpoint_except(s, c)
    [] kind = "pong" -> handle_pong(s, c, s.now)
    [] kind = "pong_no_timestamp" -> handle_pong(s, c, -1)
    [] kind = "user_message" -> endpoint_except(s, c)
    [] OTHER -> s

\* get_connection_stats()
get_connection_stats(s) ==
  [total_connections |-> Len(s.active_connections),
   unique_users |-> Cardinality(DOMAIN s.user_connections),
   user_connections |-> [u \in DOMAIN s.user_connections |->
                            Cardinality(s.user_connections[u])]]

\* polling_service.active_polls of app.services.polling, the service the status
\* route imports: a set that only register_poll adds to, which nothing calls.
long_polls == {}

\* sum(len(msgs) for msgs in message_queue.values())
RECURSIVE queued_messages(_, _)
queued_messages(q, users) ==
  IF users = {} THEN 0
  ELSE LET u == CHOOSE x \in users : TRUE
       IN Len(q[u]) + queued_messages(q, users \ {u})

\* GET /ws/status: the report, without its healthy_connections field (a
\* comparison of the wall clock with the loop-clock last_ping).
websocket_status(s) ==
  LET stats == get_connection_stats(s)
  IN [total_connections |-> stats.total_connections,
      unique_users |-> stats.unique_users,
      user_connections |-> stats.user_connections,
      polling_sessions |-> Cardinality(long_polls),
      queued_messages |-> queued_messages(s.message_queue, DOMAIN s.message_queue)]

\* ---------------------------------------------------------------- actions
Apply(s) ==
  /\ active_connections' = s.active_connections
  /\ user_connections' = s.user_connections
  /\ connection_roles' = s.connection_roles
  /\ connection_health' = s.connection_health
  /\ message_queue' = s.message_queue
  /\ reconnect_tokens' = s.reconnect_tokens
  /\ session_state' = s.session_state
  /\ rate_limits' = s.rate_limits
  /\ active_polls' = s.active_polls
  /\ poll_tasks' = s.poll_tasks
  /\ wire' = s.wire
  /\ ws_state' = s.ws_state
  /\ endpoint' = s.endpoint
  /\ heartbeats' = s.heartbeats
  /\ receiving' = s.receiving
  /\ next_token' = s.next_token
  /\ obs' = s.obs

\* Start a coroutine on the event loop: alone to its end (atomic), or to its
\* first transport await, where it joins the suspended ones.
Launch(s, stack, atomic) ==
  IF atomic
  THEN /\ Apply(RunAll(s, stack).s)
       /\ tasks' = tasks
  ELSE /\ Len(tasks) < MaxTasks
       /\ LET r == Run(s, stack)
          IN /\ Apply(r.s)
             /\ tasks' = IF r.stack = <<>> THEN tasks ELSE Append(tasks, r.stack)

Fresh == {c \in Conns : ws_state[c] = "fresh"}

\* A client opens /ws/connect/{user_id}?role=: the route draws a new
\* connection_id and calls connect, whose accept() succeeds.
Connect(u, r, atomic) ==
  /\ Fresh # {}
  /\ LET c == CHOOSE x \in Fresh : \A y \in Fresh : x <= y
         s == [St EXCEPT !.ws_state[c] = "open",
                         !.endpoint[c] = [user |-> u, role |-> r]]
     IN Launch(s, <<Frame("connect", NoMsg, c, u, r)>>, atomic)
  /\ UNCHANGED <<now, next_event, reconnect_result, allow_log>>

\* connect registering the connection before it awaits accept()
connect_refused_registered(s, c) ==
  [s EXCEPT !.active_connections = Append(@, c), !.ws_state[c] = "closed"]

\* connect when websocket.accept() raises: its except branch logs and re-raises,
\* and the route's handler logs and closes the socket.
connect_refused(s, c) == [s EXCEPT !.ws_state[c] = "closed"]

\* A client opens /ws/connect/{user_id} and accept() raises.
ConnectRefused ==
  /\ Fresh # {}
  /\ LET c == CHOOSE x \in Fresh : \A y \in Fresh : x <= y
     IN Apply(connect_refused(St, c))
  /\ UNCHANGED <<tasks, now, next_event, reconnect_result, allow_log>>

\* The subscriber thread hands an event of the bus to the loop:
\* run_coroutine_threadsafe(self._handle_redis_event(event_data)).
Publish(etype, u, r, payload, atomic) ==
  /\ next_event < MaxEvents
  /\ next_event' = next_event + 1
  /\ LET f == [Frame("route", Msg("event", next_event + 1, now, 0), 0, u, r)
                 EXCEPT !.etype = etype, !.payload = payload]
     IN Launch(St, <<f>>, atomic)
  /\ UNCHANGED <<now, reconnect_result, allow_log>>

\* The heartbeat of c wakes from asyncio.sleep(30) and pings.
HeartbeatTick(c, atomic) ==
  /\ c \in heartbeats
  /\ LET s == [St EXCEPT !.heartbeats = @ \ {c}]
     IN Launch(s, <<Frame("spm", Msg("ping", 0, now, 0), c, NoUser, NoRole),
                    Frame("heartbeat_after", NoMsg, c, NoUser, NoRole)>>, atomic)
  /\ UNCHANGED <<now, next_event, reconnect_result, allow_log>>

\* The event loop resumes a suspended coroutine.
Resume(i) ==
  /\ i \in DOMAIN tasks
  /\ LET r == Run(St, tasks[i])
         others == SubSeq(tasks, 1, i - 1) \o SubSeq(tasks, i + 1, Len(tasks))
     IN /\ Apply(r.s)
        /\ tasks' = IF r.stack = <<>> THEN others ELSE Append(others, r.stack)
  /\ UNCHANGED <<now, next_event, reconnect_result, allow_log>>

\* The client of c goes away: from now on every write to its transport raises.
ClientClose(c) ==
  /\ ws_state[c] = "open"
  /\ ws_state' = [ws_state EXCEPT ![c] = "closed"]
  /\ UNCHANGED <<active_connections, user_connections, connection_roles,
                 connection_health, message_queue, reconnect_tokens, session_state,
                 rate_limits, active_polls, poll_tasks, wire, endpoint, heartbeats, receiving,
                 tasks, now, next_token, next_event, reconnect_result, obs, allow_log>>

\* The route's receive_text() raises WebSocketDisconnect:
\* websocket_manager.disconnect(connection_id, user_id).
ReceiveDisconnect(c) ==
  /\ c \in receiving
  /\ ws_state[c] = "closed"
  /\ Apply(disconnect([St EXCEPT !.receiving = @ \ {c}], c, endpoint[c].user))
  /\ UNCHANGED <<tasks, now, next_event, reconnect_result, allow_log>>

\* The route's receive_text() returns a text frame of the client of c.
Receive(c, kind) ==
  /\ c \in receiving
  /\ ws_state[c] = "open"
  /\ kind = "pong" =>
       (c \in DOMAIN connection_health
          => Len(connection_health[c].latency_ms) < MaxPongs)
  /\ Apply(endpoint_turn(St, c, kind))
  /\ UNCHANGED <<tasks, now, next_event, reconnect_result, allow_log>>

\* History: the last token a Connect issued to u (0: none).
LatestIssued(u) ==
  LET mine == SelectSeq(obs.issued, LAMBDA e : e.user = u)
  IN IF mine = <<>> THEN 0 ELSE mine[Len(mine)].token

\* A client posts /ws/reconnect.  obs.asked keeps what held when it did: the
\* last token issued to the user and the number of session states captured for
\* the user.
Reconnect(u, t, r) ==
  /\ reconnect_result' = reconnect_session(St, u, t, r)
  /\ obs' = [obs EXCEPT !.asked =
               [latest |-> LatestIssued(u),
                sessions |-> Cardinality({i \in DOMAIN session_state :
                                           session_state[i].user_id = u})]]
  /\ UNCHANGED <<active_connections, user_connections, connection_roles,
                 connection_health, message_queue, reconnect_tokens, session_state,
                 rate_limits, active_polls, poll_tasks, wire, ws_state, endpoint, heartbeats,
                 receiving, tasks, now, next_token, next_event, allow_log>>

\* A send attempt on connection c at the current instant, and whether
\* _check_rate_limit allowed it.
SendAttempt(c) ==
  /\ c \in DOMAIN rate_limits => rate_limits[c].warnings < WarnCap
  /\ Apply(RunAll(St, <<Frame("spm", Msg("ping", 0, now, 0), c, NoUser, NoRole)>>).s)
  /\ allow_log' = IF check_rate_limit(St, c).ok
                  THEN [allow_log EXCEPT ![now] = @ + 1] ELSE allow_log
  /\ UNCHANGED <<tasks, now, next_event, reconnect_result>>

Tick(horizon) ==
  /\ now < horizon
  /\ now' = now + 1
  /\ UNCHANGED <<active_connections, user_connections, connection_roles,
                 connection_health, message_queue, reconnect_tokens, session_state,
                 rate_limits, active_polls, poll_tasks, wire, ws_state, endpoint, heartbeats,
                 receiving, tasks, next_token, next_event, reconnect_result, obs,
                 allow_log>>

\* polling_service.start_polling(user_id, poll_type, callback) is called.
StartPolling(u, poll_type) ==
  /\ Len(poll_tasks) < MaxLoops
  /\ Apply(start_polling(St, u, poll_type))
  /\ UNCHANGED <<tasks, now, next_event, reconnect_result, allow_log>>

\* The n-th poll task, created for poll_id, is scheduled (for the first time, or
\* after asyncio.sleep(interval)) and runs from its loop test.
LoopTurn(n, poll_id) ==
  /\ n \in DOMAIN poll_tasks
  /\ poll_tasks[n].poll_id = poll_id
  /\ poll_tasks[n].state = "ready"
  /\ Apply(poll_task(St, n))
  /\ UNCHANGED <<tasks, now, next_event, reconnect_result, allow_log>>

\* The asyncio.sleep(poll["interval"]) of the n-th poll task is over (5 s for
\* an interview session, less than a tick of the clock).
SleepEnds(n) ==
  /\ n \in DOMAIN poll_tasks
  /\ poll_tasks[n].state = "asleep"
  /\ poll_tasks' = [poll_tasks EXCEPT ![n].state = "ready"]
  /\ UNCHANGED <<active_connections, user_connections, connection_roles,
                 connection_health, message_queue, reconnect_tokens, session_state,
                 rate_limits, active_polls, wire, ws_state, endpoint, heartbeats,
                 receiving, tasks, now, next_token, next_event, reconnect_result, obs,
                 allow_log>>

\* polling_service.stop_polling(poll_id) is called.  obs.stopped keeps the poll
\* tasks of the session that had not returned when it was.
StopPolling(poll_id) ==
  /\ LET mine == {n \in DOMAIN poll_tasks :
                    poll_tasks[n].poll_id = poll_id /\ poll_tasks[n].state # "done"}
     IN Apply([stop_polling(St, poll_id) EXCEPT !.obs.stopped = @ \cup mine])
  /\ UNCHANGED <<tasks, now, next_event, reconnect_result, allow_log>>

\* Time passes: d ticks of the clock, up to the horizon.
Elapse(d, horizon) ==
  /\ d > 0
  /\ now + d <= horizon
  /\ now' = now + d
  /\ UNCHANGED <<active_connections, user_connections, connection_roles,
                 connection_health, message_queue, reconnect_tokens, session_state,
                 rate_limits, active_polls, poll_tasks, wire, ws_state, endpoint, heartbeats,
                 receiving, tasks, next_token, next_event, reconnect_result, obs,
                 allow_log>>

NoAnswer ==
  [user_id |-> NoUser, token |-> 0, status |-> "none", role |-> NoRole,
   last_message |-> NoMsg, disconnected_at |-> -1]

Init ==
  /\ active_connections = <<>>
  /\ user_connections = EmptyDict
  /\ connection_roles = <<>>
  /\ connection_health = EmptyDict
  /\ message_queue = EmptyDict
  /\ reconnect_tokens = EmptyDict
  /\ session_state = <<>>
  /\ rate_limits = EmptyDict
  /\ active_polls = EmptyDict
  /\ poll_tasks = <<>>
  /\ wire = [c \in Conns |-> <<>>]
  /\ ws_state = [c \in Conns |-> "fresh"]
  /\ endpoint = [c \in Conns |-> [user |-> NoUser, role |-> NoRole]]
  /\ heartbeats = {}
  /\ receiving = {}
  /\ tasks = <<>>
  /\ now = 0
  /\ next_token = 0
  /\ next_event = 0
  /\ reconnect_result = NoAnswer
  /\ obs = [pub |-> [msg |-> NoMsg, user |-> NoUser, live |-> {}, queued |-> 0,
                     done |-> FALSE],
            bc |-> [msg |-> NoMsg, targets |-> {}, failed |-> {}, got |-> {},
                    removed |-> {}, done |-> FALSE],
            replayed |-> EmptyDict, failed |-> EmptyDict, issued |-> <<>>,
            polled |-> EmptyDict, stopped |-> {}, dropped |-> {},
            stamped |-> [c \in Conns |-> <<>>],
            asked |-> [latest |-> 0, sessions |-> 0]]
  /\ allow_log = [t \in 0..RateHorizon |-> 0]

RoleTargets == Roles \cup {NoRole}

\* The clients of Spec and SpecAsync: one user on several devices, and anonymous
\* connections (routes/jobs_status.py:166 connects with user_id = None).
SoloTargets == {"u1", NoUser}

\* The events the bus delivers: event_type, user_id, target_role, and the
\* status of the payload.
Event(e, u, r) == [etype |-> e, user |-> u, role |-> r, payload |-> "none"]

EventMenu ==
  {Event("resume_processed", "u1", NoRole),
   Event("resume_processed", NoUser, "recruiter"),
   Event("resume_processed", NoUser, NoRole),
   [Event("application_status_changed", "u1", NoRole) EXCEPT !.payload = "shortlisted"]}

\* Every handler runs to its end before the next one starts.
Next ==
  \/ \E u \in SoloTargets, r \in RoleTargets : Connect(u, r, TRUE)
  \/ ConnectRefused
  \/ \E e \in EventMenu : Publish(e.etype, e.user, e.role, e.payload, TRUE)
  \/ \E c \in Conns : ClientClose(c)
  \/ \E c \in Conns : ReceiveDisconnect(c)

Spec == Init /\ [][Next]_vars

\* Coroutines interleave at their transport awaits.
AsyncMenu == {e \in EventMenu : e.etype = "resume_processed"}

NextAsync ==
  \/ \E u \in SoloTargets, r \in RoleTargets : Connect(u, r, FALSE)
  \/ \E e \in AsyncMenu : Publish(e.etype, e.user, e.role, e.payload, FALSE)
  \/ \E i \in 1..MaxTasks : Resume(i)
  \/ \E c \in Conns : ClientClose(c)

SpecAsync == Init /\ [][NextAsync]_vars

\* The reconnect endpoint, with the connects, client losses and heartbeats that
\* issue tokens and capture session states.
NextReconnect ==
  \/ \E u \in Users, r \in RoleTargets : Connect(u, r, TRUE)
  \/ \E c \in Conns : ClientClose(c)
  \/ \E c \in Conns : ReceiveDisconnect(c)
  \/ \E c \in Conns : HeartbeatTick(c, TRUE)
  \/ \E u \in Users, t \in 0..NumConns, r \in RoleTargets : Reconnect(u, t, r)

SpecReconnect == Init /\ [][NextReconnect]_vars

\* The token bucket of one connection against the clock.
RateConns == {1}

NextRate ==
  \/ \E c \in RateConns : SendAttempt(c)
  \/ Tick(RateHorizon)

SpecRate == Init /\ [][NextRate]_vars

\* The message queue against the clock: events queued for an offline user,
\* waits of more than half the retention window, and connects that replay.
LongWait == Retention \div 2 + 1

QueueHorizon == 2 * LongWait

NextQueue ==
  \/ \E u \in SoloTargets : Connect(u, NoRole, TRUE)
  \/ \E e \in AsyncMenu : Publish(e.etype, e.user, e.role, e.payload, TRUE)
  \/ Elapse(LongWait, QueueHorizon)

SpecQueue == Init /\ [][NextQueue]_vars

\* Session states against the clock: one user on several devices whose
\* connections are lost at different times, and reconnect requests.
reconnect_window == ReconnectWindowHours * 60 * TicksPerMinute

SessionWait == reconnect_window \div 2 + 1

SessionHorizon == 2 * SessionWait

NextSession ==
  \/ Connect("u1", NoRole, TRUE)
  \/ \E c \in Conns : ClientClose(c)
  \/ \E c \in Conns : HeartbeatTick(c, TRUE)
  \/ \E t \in 0..NumConns : Reconnect("u1", t, NoRole)
  \/ Elapse(SessionWait, SessionHorizon)

SpecSession == Init /\ [][NextSession]_vars

\* Fallback polling against the clock: sessions are started (as the manager
\* does after a failed delivery), their loops take turns, and time passes.
PollWait == max_poll_age \div 2 + 1

PollHorizon == 2 * PollWait

PollTypes == {"application", "interview"}

\* The poll ids start_polling can make: user, type and the time of the start.
PollIds == {"u1"} \X PollTypes \X {0, PollWait, PollHorizon}

NextPoll ==
  \/ \E poll_type \in PollTypes : StartPolling("u1", poll_type)
  \/ \E n \in 1..MaxLoops, poll_id \in PollIds : LoopTurn(n, poll_id)
  \/ \E n \in 1..MaxLoops : SleepEnds(n)
  \/ Elapse(PollWait, PollHorizon)

SpecPoll == Init /\ [][NextPoll]_vars

\* Stopping sessions: the sessions of one type are started, stopped and started
\* again while their loops take turns.  asyncio runs every task that is ready
\* and every sleep ends: a poll task that can run eventually does.
StopTypes == {"interview"}

StopIds == {"u1"} \X StopTypes \X {0, PollWait, PollHorizon}

NextStop ==
  \/ \E poll_type \in StopTypes : StartPolling("u1", poll_type)
  \/ \E poll_id \in StopIds : StopPolling(poll_id)
  \/ \E n \in 1..MaxLoops, poll_id \in StopIds : LoopTurn(n, poll_id)
  \/ \E n \in 1..MaxLoops : SleepEnds(n)
  \/ Elapse(PollWait, PollHorizon)

SpecStop ==
  /\ Init /\ [][NextStop]_vars
  /\ \A n \in 1..MaxLoops, poll_id \in StopIds : WF_vars(LoopTurn(n, poll_id))
  /\ \A n \in 1..MaxLoops : WF_vars(SleepEnds(n))

\* Events of one user against the scheduler: every event of the bus targets
\* the same user, and the handlers interleave at their transport awaits.
OrderMenu == {e \in EventMenu : e.user = "u1"}

NextOrder ==
  \/ \E u \in SoloTargets, r \in RoleTargets : Connect(u, r, FALSE)
  \/ \E e \in OrderMenu : Publish(e.etype, e.user, e.role, e.payload, FALSE)
  \/ \E i \in 1..MaxTasks : Resume(i)

SpecOrder == Init /\ [][NextOrder]_vars

\* The bus with application events of two statuses, a job event for everyone
\* (the only event_type of the "_completed" branch that ends in "_completed")
\* and malformed events:
\* events without event_type (for a user, for a role, for everyone), and an
\* application event and a resume event whose payload is null.
BusMenu ==
  {[Event("application_status_changed", "u1", NoRole) EXCEPT !.payload = "shortlisted"],
   [Event("application_status_changed", "u1", NoRole) EXCEPT !.payload = "rejected"],
   [Event("application_status_changed", "u1", NoRole) EXCEPT !.payload = NullPayload],
   Event("none", "u1", NoRole),
   Event("none", NoUser, "recruiter"),
   Event("none", NoUser, NoRole),
   Event("resume_processed", "u1", NoRole),
   [Event("resume_processed", "u1", NoRole) EXCEPT !.payload = NullPayload],
   Event("job_matching_completed", NoUser, NoRole)}

NextBus ==
  \/ \E u \in SoloTargets, r \in RoleTargets : Connect(u, r, TRUE)
  \/ \E e \in BusMenu : Publish(e.etype, e.user, e.role, e.payload, TRUE)
  \/ \E c \in Conns : ClientClose(c)
  \/ \E c \in Conns : ReceiveDisconnect(c)

SpecBus == Init /\ [][NextBus]_vars

\* The receive loops of routes/websocket.py: clients connect, send text frames
\* of every kind, and go away.
NextReceive ==
  \/ \E u \in SoloTargets, r \in RoleTargets : Connect(u, r, TRUE)
  \/ \E c \in Conns, kind \in FrameKinds : Receive(c, kind)
  \/ \E c \in Conns : ClientClose(c)
  \/ \E c \in Conns : ReceiveDisconnect(c)

SpecReceive == Init /\ [][NextReceive]_vars

\* ------------------------------------------------------------------ claims
IndexedIn(s) == UNION {s.user_connections[u] : u \in DOMAIN s.user_connections}

\* C1: when the router has handled an event targeted at user U, the event's
\* frame is on every connection of U that was live (and whose transport is open
\* and whose bucket never refused), and if U had no live connection the event
\* is in U's queue exactly once.
C1_DeliveredOrQueued ==
  obs.pub.done =>
    IF obs.pub.live = {}
    THEN obs.pub.queued = 1
    ELSE \A c \in obs.pub.live :
           (ws_state[c] = "open" /\ rate_limits[c].warnings = 0)
             => obs.pub.msg \in Range(wire[c])

\* C2: between handlers, every connection id in the user-to-connections index
\* is in the live-connection set.
C2_NoDanglingIds == tasks = <<>> => IndexedIn(St) \subseteq Live(St)

\* C3: when a broadcast in which exactly one transport write failed has
\* returned, every other connection that was live at its start has the frame
\* and only the failing connection has left the live set.
C3_BroadcastIsolation ==
  (obs.bc.done /\ Cardinality(obs.bc.failed) = 1) =>
    /\ obs.bc.got = obs.bc.targets \ obs.bc.failed
    /\ obs.bc.removed = obs.bc.failed

\* C4: when Connect for a user with N queued messages has returned, the first N
\* frames on the new connection are the N messages in enqueue order, the
\* connection_established frame comes after them, and the user's queue is empty.
C4_ReplayBeforeWelcome ==
  \A c \in DOMAIN obs.replayed :
    LET rp == obs.replayed[c]
        n == Len(rp.queued)
    IN rp.returned =>
         /\ Len(wire[c]) >= n
         /\ SubSeq(wire[c], 1, n) = rp.queued
         /\ \A i \in DOMAIN wire[c] : wire[c][i].type = "connection_established" => i > n
         /\ rp.queue_after = <<>>

\* C5: when Connect has returned, every message that was queued for the user and
\* was not written to the new connection is still in the user's queue.
C5_NoQueuedMessageLost ==
  \A c \in DOMAIN obs.replayed :
    LET rp == obs.replayed[c]
    IN rp.returned =>
         \A i \in DOMAIN rp.queued :
           rp.queued[i] \notin Range(wire[c]) => rp.queued[i] \in Range(rp.queue_after)

\* C6: on a connection of user U that replays N queued messages, the frame of an
\* event targeted at U that was not among them is written only after all N have
\* been written.
C6_ReplayBeforeNewEvents ==
  \A c \in DOMAIN obs.replayed :
    LET q == obs.replayed[c].queued
    IN \A i \in DOMAIN wire[c] :
         (/\ wire[c][i] = obs.pub.msg
          /\ obs.pub.user = obs.replayed[c].user
          /\ wire[c][i] \notin Range(q))
           => (i > Len(q) /\ SubSeq(wire[c], 1, Len(q)) = q)

\* C7 as claimed: Reconnect(U, T) succeeds if and only if T is the token most
\* recently issued to U by Connect.
C7_SucceedsIffLatestToken ==
  reconnect_result.status # "none" =>
    (reconnect_result.status = "ready_to_reconnect"
       <=> (obs.asked.latest # 0 /\ reconnect_result.token = obs.asked.latest))

\* C7 amended: Reconnect(U, T) succeeds if and only if T is the token most
\* recently issued to U by Connect and a session state has been captured for U;
\* a wrong token is answered 401, a right one without a session state 404.
C7_SucceedsIffLatestTokenAndSession ==
  reconnect_result.status # "none" =>
    LET right == obs.asked.latest # 0 /\ reconnect_result.token = obs.asked.latest
    IN /\ reconnect_result.status = "ready_to_reconnect" <=> (right /\ obs.asked.sessions > 0)
       /\ reconnect_result.status = "401" <=> ~right
       /\ reconnect_result.status = "404" <=> (right /\ obs.asked.sessions = 0)

\* C7 witness: a Reconnect with the user's latest token has succeeded after the
\* user was issued more than one token.
C7_Witness ==
  /\ reconnect_result.status = "ready_to_reconnect"
  /\ reconnect_result.token = obs.asked.latest
  /\ \E i \in DOMAIN obs.issued :
       obs.issued[i].user = reconnect_result.user_id
         /\ obs.issued[i].token # reconnect_result.token

\* C8: when Send has returned after its transport write to c failed, c is not in
\* the live-connection set.
C8_FailedWriteDisconnects ==
  \A c \in DOMAIN obs.failed : obs.failed[c].transport => ~obs.failed[c].live_after

\* C9: when a delivery to a connection of user U has failed and the connection
\* has been torn down, a session state of that connection holds U, its role and
\* the failed message, and a fallback polling session of U is active.
C9_FailureStartsFallback ==
  \A c \in DOMAIN obs.failed :
    (obs.failed[c].transport /\ endpoint[c].user # NoUser /\ c \notin Live(St)) =>
      /\ \E i \in DOMAIN session_state :
           /\ session_state[i].conn = c
           /\ session_state[i].user_id = endpoint[c].user
           /\ session_state[i].role = endpoint[c].role
           /\ session_state[i].last_message = obs.failed[c].msg
      /\ \E p \in DOMAIN active_polls : active_polls[p].user_id = endpoint[c].user

RECURSIVE SumLog(_, _)
SumLog(from, to) ==
  IF from > to THEN 0 ELSE allow_log[from] + SumLog(from + 1, to)

\* C10: in any window of one minute (TicksPerMinute consecutive ticks) the
\* limiter allows at most max_messages_per_minute (refill) plus
\* max_messages_per_minute (burst) attempts of a connection.
C10_WindowBound ==
  \A t \in 0..RateHorizon :
    SumLog(t, Min(t + TicksPerMinute - 1, RateHorizon)) <= 2 * max_messages_per_minute

\* C10 witness: a window in which the limiter allowed exactly that many.
C10_Witness ==
  \E t \in 0..RateHorizon :
    /\ t + TicksPerMinute - 1 <= RateHorizon
    /\ SumLog(t, t + TicksPerMinute - 1) = 2 * max_messages_per_minute

\* History: the instant of the last attempt the limiter allowed (0: the start).
RECURSIVE LastAllowed(_)
LastAllowed(t) ==
  IF t = 0 THEN 0 ELSE IF allow_log[t] > 0 THEN t ELSE LastAllowed(t - 1)

\* C11: a connection whose bucket is empty is allowed again once the time for
\* one token (60 / capacity seconds) has elapsed since the attempt that emptied
\* the bucket, however many checks were made in between.
C11_RefillByElapsedTime ==
  \A c \in RateConns :
    (/\ c \in DOMAIN rate_limits
     /\ rate_limits[c].tokens = 0
     /\ allow_log[LastAllowed(now)] > 0
     /\ (now - LastAllowed(now)) * max_messages_per_minute >= TicksPerMinute)
      => check_rate_limit(St, c).ok

\* C12: a connection that has accumulated 3 violations of the rate limit is no
\* longer in the live-connection set.
C12_EvictedAtThreeViolations ==
  \A c \in DOMAIN rate_limits :
    rate_limits[c].warnings >= MaxWarnings => c \notin Live(St)

\* C14: an event that carries a target user and no target role takes the user
\* route only: every frame made for it is on a connection of that user.
C14_OneAudienceRoute ==
  \A c \in Conns :
    \A i \in DOMAIN wire[c] :
      (obs.pub.msg.ev # 0 /\ wire[c][i].ev = obs.pub.msg.ev)
        => endpoint[c].user = obs.pub.user

\* A maximum queue size to hold the queue against: the manager configures none
\* (history_limit is never applied to message_queue), so any value can stand here.
QueueBound == 2

\* C15: no user's message queue is ever longer than the maximum size.
C15_QueueWithinMaxSize ==
  \A u \in DOMAIN message_queue : Len(message_queue[u]) <= QueueBound

\* C16: no message replayed to a connecting client was enqueued more than the
\* retention window (24 hours) before the connect.
C16_NoStaleReplay ==
  \A c \in DOMAIN obs.replayed :
    c \in DOMAIN connection_health =>
      \A i \in DOMAIN obs.replayed[c].queued :
        LET m == obs.replayed[c].queued[i]
        IN m \in Range(wire[c]) => connection_health[c].connected_at - m.ts <= Retention

\* What a Reconnect step answered against what was stored when it was asked.
C17_Outcome(res, tokens, states, notfound_needs_match) ==
  LET u == res.user_id
      match == u \in DOMAIN tokens /\ tokens[u] = res.token
      mine == {i \in DOMAIN states : states[i].user_id = u}
      ok == res.status = "ready_to_reconnect"
  IN /\ res.status \in {"401", "404", "ready_to_reconnect"}
     /\ res.status = "401" <=> ~match
     /\ res.status = "404" <=> (mine = {} /\ (notfound_needs_match => match))
     /\ ok <=> (match /\ mine # {})
     /\ ~ok => /\ res.last_message = NoMsg
               /\ res.disconnected_at = -1
               /\ res.role = NoRole
     /\ ok => \E i \in mine : /\ states[i].last_message = res.last_message
                              /\ states[i].disconnected_at = res.disconnected_at

\* C17 as claimed: every Reconnect answers the auth error exactly when the token
\* does not match the stored one, the not-found error exactly when no session
\* state exists for the user, and the snapshot exactly when the token matches
\* and a session state exists.
C17_OutcomesAsClaimed ==
  [][reconnect_result' # reconnect_result =>
       C17_Outcome(reconnect_result', reconnect_tokens, session_state, FALSE)]_vars

\* C17 amended: every Reconnect answers the auth error exactly when the token
\* does not match the stored one, the not-found error exactly when the token
\* matches and no session state exists for the user, and the snapshot exactly
\* when the token matches and one exists; a rejection carries no field of a
\* session state and a snapshot is a session state of the requesting user.
C17_ThreeOutcomes ==
  [][reconnect_result' # reconnect_result =>
       C17_Outcome(reconnect_result', reconnect_tokens, session_state, TRUE)]_vars

\* C17 witness: a Reconnect answered with a snapshot while a session state of
\* another user was stored.
C17_Witness ==
  /\ reconnect_result.status = "ready_to_reconnect"
  /\ \E i \in DOMAIN session_state :
       session_state[i].user_id # reconnect_result.user_id

\* C18: a Reconnect that succeeds returns, of the session states captured for
\* the user, the one with the latest disconnected_at.
C18_ReturnsLatestState ==
  [][(reconnect_result' # reconnect_result
        /\ reconnect_result'.status = "ready_to_reconnect") =>
       \A i \in DOMAIN session_state :
         session_state[i].user_id = reconnect_result'.user_id
           => session_state[i].disconnected_at <= reconnect_result'.disconnected_at]_vars

\* C19: a Reconnect made more than the reconnect window (24 hours) after
\* disconnected_at does not succeed with that session state.
C19_ExpiresAfterWindow ==
  [][(reconnect_result' # reconnect_result
        /\ reconnect_result'.status = "ready_to_reconnect") =>
       now - reconnect_result'.disconnected_at <= reconnect_window]_vars

C20_SelfTerminates ==
  \A poll_id \in DOMAIN obs.polled :
    obs.polled[poll_id].at - poll_id[3] > max_poll_age
      => poll_id \notin DOMAIN active_polls

\* C21: in every reachable state there is at most one active polling session per
\* (user_id, poll_type), however many times a session is started for the user.
C21_OneSessionPerUserAndType ==
  \A p \in DOMAIN active_polls, q \in DOMAIN active_polls :
     (active_polls[p].user_id = active_polls[q].user_id
      /\ active_polls[p].type = active_polls[q].type) => p = q

\* C22: when Disconnect(c, u) returns (the route's disconnect after its receive
\* loop ended), c is in none of the per-connection structures: not live, not in
\* u's connection set, not in the role index, and it has neither a health record
\* nor a rate-limit record.
C22_DisconnectDiscardsAll ==
  [][\A c \in Conns :
       (c \in receiving /\ c \notin receiving') =>
          /\ c \notin Range(active_connections')
          /\ \A u \in DOMAIN user_connections' : c \notin user_connections'[u]
          /\ \A i \in DOMAIN connection_roles' : connection_roles'[i].conn # c
          /\ c \notin DOMAIN connection_health'
          /\ c \notin DOMAIN rate_limits']_vars

\* C23: Disconnect and StopPolling are idempotent: from every reachable state,
\* for every connection id and user (registered or not) a second
\* disconnect(c, u) leaves exactly the state the first one produced, and for
\* every poll id (active or not) a second stop_polling(p) leaves exactly the
\* state the first one produced.
C23_Idempotent ==
  /\ \A c \in Conns, u \in Users \cup {NoUser} :
        disconnect(disconnect(St, c, u), c, u) = disconnect(St, c, u)
  /\ \A p \in PollIds \cup DOMAIN active_polls :
        stop_polling(stop_polling(St, p), p) = stop_polling(St, p)

\* C23 witness: the route has already disconnected one connection, another
\* connection of a user is live and indexed (a disconnect that changes the
\* state), a polling session is active (a stop_polling that changes the state)
\* and another poll id was never registered.
C23_Witness ==
  /\ \E c \in Conns : /\ c \in DOMAIN connection_health
                      /\ c \notin receiving
                      /\ c \notin Range(active_connections)
  /\ \E c \in Range(active_connections), u \in DOMAIN user_connections :
        /\ c \in user_connections[u]
        /\ disconnect(St, c, u) # St
  /\ \E p \in DOMAIN active_polls : stop_polling(St, p) # St
  /\ \E p \in PollIds : p \notin DOMAIN active_polls

\* C24: a connect or a teardown that interleaves with a broadcast in progress
\* never aborts it: when a broadcast none of whose own writes failed has
\* returned, every connection that was live when it began, is still live and
\* has an open transport has the message.
C24_FanOutOverSnapshot ==
  (obs.bc.done /\ obs.bc.failed = {}) =>
    \A c \in obs.bc.targets \ obs.bc.removed :
       ws_state[c] = "open" => c \in obs.bc.got

\* The event frames of a sequence of messages are in the order the bus
\* delivered their events.
InBusOrder(q) ==
  \A i \in DOMAIN q, j \in DOMAIN q :
     (i < j /\ q[i].type = "event" /\ q[j].type = "event") => q[i].ev < q[j].ev

\* C25: with every event targeted at the same user and the handlers interleaved
\* in every way, the events of the user's queue are in the order the bus
\* delivered them, and so are the event frames written to each connection of the
\* user.
C25_PerUserOrder ==
  /\ \A u \in DOMAIN message_queue : InBusOrder(message_queue[u])
  /\ \A c \in Conns : endpoint[c].user # NoUser => InBusOrder(wire[c])

\* C26: every frame written to a connection is preceded by a rate-limit check
\* for that connection that allowed it: a step that writes a frame to c's
\* transport leaves c's bucket created or changed (an allowing check creates the
\* record, or takes a token and stamps last_update).
C26_WriteAfterAllowingCheck ==
  [][\A c \in Conns :
       Len(wire'[c]) > Len(wire[c]) =>
          /\ c \in DOMAIN rate_limits'
          /\ c \in DOMAIN rate_limits => rate_limits'[c] # rate_limits[c]]_vars

\* C27: a poll task of a session that was running when stop_polling was called
\* for the session eventually returns.
C27_StoppedLoopTerminates ==
  \A n \in 1..MaxLoops :
     [](n \in obs.stopped => <>(n \in DOMAIN poll_tasks /\ poll_tasks[n].state = "done"))

\* C28: after Disconnect(c) the heartbeat of c changes nothing: the step in which
\* the heartbeat of a connection that is no longer live wakes and ends writes no
\* frame to c and leaves the health records, the session states, the rate-limit
\* records and the polling sessions as they were.
C28_HeartbeatEndsQuietly ==
  [][\A c \in Conns :
       (c \notin Range(active_connections) /\ c \in heartbeats /\ c \notin heartbeats') =>
          /\ wire'[c] = wire[c]
          /\ connection_health' = connection_health
          /\ session_state' = session_state
          /\ rate_limits' = rate_limits
          /\ active_polls' = active_polls]_vars

\* C29: Broadcast(m) (every call of the program passes no exclude list) writes m
\* to every connection that was live when it began and to no other: when it has
\* returned, every such connection whose transport is open has m, and every
\* connection that has m was live when it began.
C29_BroadcastWritesToTargets ==
  obs.bc.done =>
    \A c \in Conns :
       /\ (c \in obs.bc.targets /\ ws_state[c] = "open") => obs.bc.msg \in Range(wire[c])
       /\ obs.bc.msg \in Range(wire[c]) => c \in obs.bc.targets

\* C30: every Connect with a user_id stores a freshly generated reconnect token
\* for the user, and the connection_established frame it writes carries the
\* id of the new connection and the token stored for the user at that moment.
\* First conjunct: in the step that writes the frame to c, the frame names c
\* and, for a connection of a user, carries the token stored after the step, a
\* token never generated before the step.  Second conjunct: each user has at
\* least as many tokens issued as connects returned, the stored token is the
\* last one issued to the user, and no token was issued twice.
C30_RotatedTokenInWelcome ==
  /\ [][\A c \in Conns :
          (Len(wire'[c]) > Len(wire[c])
           /\ wire'[c][Len(wire'[c])].type = "connection_established") =>
             LET m == wire'[c][Len(wire'[c])]
                 u == endpoint'[c].user
             IN /\ m.conn = c
                /\ u # NoUser =>
                     /\ u \in DOMAIN reconnect_tokens'
                     /\ m.tok = reconnect_tokens'[u]
                     /\ m.tok > next_token]_vars
  /\ [](\A u \in Users :
          LET mine == SelectSeq(obs.issued, LAMBDA e : e.user = u)
          IN /\ Cardinality({c \in receiving : endpoint[c].user = u}) <= Len(mine)
             /\ mine # <<>> =>
                  /\ u \in DOMAIN reconnect_tokens
                  /\ reconnect_tokens[u] = mine[Len(mine)].token
             /\ \A i \in DOMAIN obs.issued, j \in DOMAIN obs.issued :
                  obs.issued[i].token = obs.issued[j].token => i = j)

\* C30 witness: two connects of the same user have returned, each wrote its
\* connection_established frame naming its own connection, the two frames carry
\* different tokens, and the stored token is the one of the later frame.
C30_Witness ==
  \E c \in Conns, d \in Conns, u \in Users :
     /\ c < d
     /\ {c, d} \subseteq receiving
     /\ endpoint[c].user = u /\ endpoint[d].user = u
     /\ \E i \in DOMAIN wire[c], j \in DOMAIN wire[d] :
          /\ wire[c][i].type = "connection_established" /\ wire[c][i].conn = c
          /\ wire[d][j].type = "connection_established" /\ wire[d][j].conn = d
          /\ wire[c][i].tok # wire[d][j].tok
          /\ reconnect_tokens[u] = wire[d][j].tok

\* The frames C31 calls malformed: text that is not JSON, JSON that is not an
\* object, and an object of no known type.
MalformedKinds == {"invalid_json", "not_object", "unknown_type"}

\* C31: a malformed inbound frame is silently discarded: in the step in which
\* the route handles one on connection c, c stays in its receive loop with an
\* open transport, stays live and indexed, and nothing of the manager changes.
C31_MalformedFrameDiscarded ==
  [][\A c \in Conns, kind \in MalformedKinds :
       Receive(c, kind) =>
          /\ c \in receiving'
          /\ ws_state'[c] = "open"
          /\ UNCHANGED <<active_connections, user_connections, connection_roles,
                         connection_health, message_queue, reconnect_tokens,
                         session_state, rate_limits, active_polls>>]_vars

\* C38: whenever the receive loop of a connection ends (the client went away,
\* or handling an inbound frame raised), the connection is no longer live and
\* is in no user's connection set.
C38_LoopEndUnregisters ==
  [][\A c \in Conns :
       (c \in receiving /\ c \notin receiving') =>
          /\ c \notin Range(active_connections')
          /\ \A u \in DOMAIN user_connections' : c \notin user_connections'[u]]_vars

\* C32: a user's queue exists only while the user is offline: a user with a
\* registered connection (an entry in user_connections) has no entry in
\* message_queue, and no step creates a queue entry for a user one of whose
\* connections is live.
C32_QueueOnlyWhileOffline ==
  /\ [](\A u \in DOMAIN user_connections : u \notin DOMAIN message_queue)
  /\ [][\A u \in Users :
          (LiveOf(St, u) # {} /\ u \notin DOMAIN message_queue)
             => u \notin DOMAIN message_queue']_vars

\* C32 witness: an event for a user was queued while the user was offline, a
\* connect of the user took the queue and replayed it, and a later event for
\* the user, handled while that connection was live, was not queued and left
\* no queue entry.
C32_Witness ==
  \E c \in Conns, u \in Users :
     /\ c \in DOMAIN obs.replayed
     /\ obs.replayed[c].user = u
     /\ obs.replayed[c].queued # <<>>
     /\ obs.replayed[c].returned
     /\ c \in Range(active_connections)
     /\ c \in user_connections[u]
     /\ obs.pub.done /\ obs.pub.user = u /\ c \in obs.pub.live
     /\ obs.pub.queued = 0
     /\ u \notin DOMAIN message_queue

\* The application events of the bus that carry a status.
StatusEvents ==
  {e \in BusMenu : e.etype = "application_status_changed" /\ e.payload # NullPayload}

C34_OneOutcomePerEvent ==
  /\ \A c \in Conns, n \in 1..MaxEvents :
        Cardinality({i \in DOMAIN wire[c] : wire[c][i].ev = n}) <= 1
  /\ \A u \in DOMAIN message_queue, c \in Conns :
        endpoint[c].user = u =>
           \A i \in DOMAIN message_queue[u], j \in DOMAIN wire[c] :
              wire[c][j].ev # message_queue[u][i].ev

\* The events C35 calls malformed: no event_type, or a null payload.
MalformedEvents == {e \in BusMenu : e.etype = "none" \/ e.payload = NullPayload}

\* The malformed events the router cannot read: no event_type, or a null
\* payload in an event whose typed handler reads the payload.
UnreadableEvents ==
  {e \in MalformedEvents : e.etype \in {"none", "application_status_changed"}}

\* C35 as stated: the step in which the router handles a malformed event
\* (no event_type, or a null payload) changes neither the indexes nor the
\* queues, writes nothing and tears nothing down.
C35_MalformedEventDropped ==
  [][\A e \in MalformedEvents :
       Publish(e.etype, e.user, e.role, e.payload, TRUE) =>
          UNCHANGED <<active_connections, user_connections, connection_roles,
                      connection_health, message_queue, reconnect_tokens,
                      session_state, rate_limits, active_polls, poll_tasks, wire,
                      ws_state, heartbeats, receiving, tasks>>]_vars

\* C35 amended: the step in which the router handles an event it cannot read
\* (no event_type, or a null payload in an application_status_changed event)
\* drops the event: it changes neither the indexes nor the queues, writes
\* nothing, tears nothing down and leaves no coroutine behind, so that the
\* events after it are handled from the state they would have found without it.
C35_UnreadableEventDropped ==
  [][\A e \in UnreadableEvents :
       Publish(e.etype, e.user, e.role, e.payload, TRUE) =>
          /\ next_event' \in obs'.dropped
          /\ UNCHANGED <<active_connections, user_connections, connection_roles,
                         connection_health, message_queue, reconnect_tokens,
                         session_state, rate_limits, active_polls, poll_tasks, wire,
                         ws_state, heartbeats, receiving, tasks>>]_vars

\* C35 witness: the router dropped an event, and an event taken from the bus
\* after it was written to a live connection and another one was queued.
C35_Witness ==
  \E n \in obs.dropped :
     /\ \E c \in Range(active_connections) :
           \E i \in DOMAIN wire[c] : wire[c][i].ev > n
     /\ \E u \in DOMAIN message_queue :
           \E i \in DOMAIN message_queue[u] : message_queue[u][i].ev > n

\* C36: every frame written to a client transport, by whichever send path,
\* carries a message_id and a timestamp.
C36_FramesCarryIdAndTimestamp ==
  \A c \in Conns :
     /\ Len(obs.stamped[c]) = Len(wire[c])
     /\ \A i \in DOMAIN wire[c] :
          obs.stamped[c][i].message_id /\ obs.stamped[c][i].timestamp

\* C37: the status report agrees with the state at the time of the call: the
\* total is the number of live connections, the count reported for a user is
\* the number of live connections of that user (and a user with live
\* connections is reported), the polling-session count is the number of active
\* fallback polling sessions, and the queued count is the sum of the queue
\* lengths.
C37_StatusAgreesWithState ==
  tasks = <<>> =>
    LET report == websocket_status(St)
    IN /\ report.total_connections = Cardinality(Live(St))
       /\ \A u \in Users :
            IF u \in DOMAIN report.user_connections
            THEN report.user_connections[u] = Cardinality(LiveOf(St, u))
            ELSE LiveOf(St, u) = {}
       /\ report.polling_sessions = Cardinality(DOMAIN active_polls)
       /\ report.queued_messages =
            queued_messages(message_queue, DOMAIN message_queue)

\* C39: every live connection that was connected with a user_id is in that
\* user's connection set, and no user maps to an empty set.
C39_LiveConnectionsIndexed ==
  /\ \A c \in Range(active_connections) :
        endpoint[c].user # NoUser =>
           /\ endpoint[c].user \in DOMAIN user_connections
           /\ c \in user_connections[endpoint[c].user]
  /\ \A u \in DOMAIN user_connections : user_connections[u] # {}

\* C39 witness: a user had two connections; the route disconnected one of
\* them, which left the live set and the user's set, and the other is live and
\* still in the user's set.
C39_Witness ==
  \E c \in Conns, d \in Conns, u \in Users :
     /\ c # d
     /\ endpoint[c].user = u /\ endpoint[d].user = u
     /\ c \in Range(active_connections) /\ c \in user_connections[u]
     /\ d \in DOMAIN connection_health
     /\ d \notin receiving
     /\ d \notin Range(active_connections)
     /\ d \notin user_connections[u]

\* C40: if accepting the transport fails in Connect, the manager's state is
\* unchanged: the connection is in no index, no queue and no reconnect token
\* is touched, no health or rate-limit record is created, no heartbeat is
\* started, nothing is written, and the route does not enter its receive loop.
C40_RefusedConnectChangesNothing ==
  [][ConnectRefused =>
       /\ UNCHANGED <<active_connections, user_connections, connection_roles,
                      connection_health, message_queue, reconnect_tokens,
                      session_state, rate_limits, active_polls, poll_tasks, wire,
                      heartbeats, receiving, tasks, next_token>>
       /\ \A c \in Conns : ws_state'[c] # ws_state[c] => ws_state'[c] = "closed"]_vars

\* C40 witness: a connect was refused (its transport is closed and it never got
\* a health record) while a user had a queue and a reconnect token, and both
\* are still there.
C40_Witness ==
  \E c \in Conns :
     /\ ws_state[c] = "closed"
     /\ c \notin DOMAIN connection_health
     /\ c \notin Range(active_connections)
     /\ "u1" \in DOMAIN message_queue
     /\ "u1" \in DOMAIN reconnect_tokens
====
